---- MODULE Spec2Model ----
(***************************************************************************)
(* Verification model of DeepSpeaker's utility layer (utils/utils.py) and  *)
(* of the checkpoint callback wired up by trainers/deep_voice_trainer.py.  *)
(*                                                                         *)
(* Four independent components are modelled, each with its own             *)
(* specification over its own variables:                                   *)
(*   SpecIter  - ThreadSafeIter.next shared by worker threads              *)
(*   SpecTrim  - remove_silence, applied repeatedly to a clip              *)
(*   SpecList  - list_files over the local and the gs:// backend           *)
(*   SpecSaver - SaverCallback.on_epoch_end inside the fit loop            *)
(***************************************************************************)
EXTENDS Integers, Sequences, FiniteSets, TLC

VARIABLES
    \* ---- ThreadSafeIter ----
    nthreads,   \* N: number of worker threads sharing the wrapper
    nelems,     \* K: number of elements the wrapped generator yields
    lock,       \* self.lock: TRUE while held
    it_pos,     \* self.it: number of elements the generator has yielded
    it_done,    \* self.it: the generator has raised StopIteration
    pc,         \* pc[t]: where thread t is inside next()
    frame,      \* frame[t]: generator position thread t resumed from
    result,     \* result[t]: outcome of it.next() carried out of the with block
    returned    \* returned[t][v]: number of times next() returned v to thread t

iterVars == <<nthreads, nelems, lock, it_pos, it_done, pc, frame, result, returned>>

VARIABLES
    \* ---- remove_silence ----
    sound,             \* the input clip: one amplitude per millisecond
    silence_threshold, \* the threshold, on the loudness scale of dBFS below
    chunk_size,        \* chunk size in milliseconds
    clip,              \* the output clip, as the positions of `sound` it holds
    cur_start,         \* start of the segment not yet flushed
    trim_ms,           \* scan position
    rs_pc,             \* "scan", "tail" (loop left), "returned"
    judged_loud,       \* starts of the chunks the scan measured as not silent
    applications,      \* completed calls of remove_silence on this clip
    first_len          \* length of the clip the first call was given

trimVars == <<sound, silence_threshold, chunk_size, clip, cur_start, trim_ms,
              rs_pc, judged_loud, applications, first_len>>

VARIABLES
    \* ---- list_files ----
    store,        \* the files of the storage base_path names, relative to its root
    base_path,    \* base_path.split('/')
    name_filter,  \* which predicate the caller passed
    lf_pc,        \* "start", "walk" (local), "blobs" (gs://), "done"
    walk_stack,   \* os.walk: folders still to visit, nearest first
    candidates,   \* files of the current folder / blobs of the bucket not yet tested
    yielded       \* the paths yielded so far, in order, each as path.split('/')

listVars == <<store, base_path, name_filter, lf_pc, walk_stack, candidates, yielded>>

VARIABLES
    \* ---- SaverCallback inside fit_generator ----
    epochs,        \* number of epochs the fit loop runs
    epoch,         \* current epoch
    sc_pc,         \* "training", "primary", "secondary", "raised", "finished"
    tf_saved,      \* epochs whose TensorFlow checkpoint was written
    keras_saved,   \* epochs whose Keras weights file was written
    logged,        \* epochs whose secondary failure was logged by logging.exception
    attempted      \* save paths started in the current on_epoch_end call

saverVars == <<epochs, epoch, sc_pc, tf_saved, keras_saved, logged, attempted>>

vars == <<iterVars, trimVars, listVars, saverVars>>

notIter == <<trimVars, listVars, saverVars>>
notTrim == <<iterVars, listVars, saverVars>>
notList == <<iterVars, trimVars, saverVars>>
notSaver == <<iterVars, trimVars, listVars>>

(***************************************************************************)
(* Bounds                                                                  *)
(***************************************************************************)
MaxThreads == 3
MaxElems == 3
MaxLen == 4
MaxAmp == 2
MaxChunk == 3
MaxDepth == 2
MaxFiles == 3
MaxEpochs == 4

(***************************************************************************)
(* ThreadSafeIter (utils.py 135-159)                                       *)
(***************************************************************************)
Threads == 1..MaxThreads
Active == 1..nthreads

StopIteration == 0      \* result value standing for the end-of-sequence exception
NoResult == -1

\* The wrapped generator yields the distinct values 1..K, in order.
GenValue(i) == i

\* The generator's position once it has yielded from position f.
StuckPositionAfterYield(f) == f
PositionAfterYield(f) == f + 1

\* threading.Lock.acquire as done by `with self.lock`: blocks while the lock is held.
NoLockCanAcquire == TRUE
CanAcquire == ~lock

\* __exit__ of `with self.lock`: runs on return and on an exception alike.
LeakOnStopLockAfterExit(r) == r = StopIteration
LockAfterExit(r) == FALSE

\* A thread calls next() and reaches `with self.lock`.
CallNext(t) ==
    /\ pc[t] = "idle"
    /\ pc' = [pc EXCEPT ![t] = "waiting"]
    /\ UNCHANGED <<nthreads, nelems, lock, it_pos, it_done, frame, result, returned>>
    /\ UNCHANGED notIter

\* `with self.lock:` entered.
AcquireLock(t) ==
    /\ pc[t] = "waiting"
    /\ CanAcquire
    /\ lock' = TRUE
    /\ pc' = [pc EXCEPT ![t] = "locked"]
    /\ UNCHANGED <<nthreads, nelems, it_pos, it_done, frame, result, returned>>
    /\ UNCHANGED notIter

\* self.it.next() resumes the generator from its saved position.
GenResume(t) ==
    /\ pc[t] = "locked"
    /\ frame' = [frame EXCEPT ![t] = it_pos]
    /\ pc' = [pc EXCEPT ![t] = "advancing"]
    /\ UNCHANGED <<nthreads, nelems, lock, it_pos, it_done, result, returned>>
    /\ UNCHANGED notIter

\* The generator reaches its next yield: saves its position, hands out the value.
GenYield(t) ==
    /\ pc[t] = "advancing"
    /\ frame[t] < nelems
    /\ it_pos' = PositionAfterYield(frame[t])
    /\ result' = [result EXCEPT ![t] = GenValue(frame[t] + 1)]
    /\ pc' = [pc EXCEPT ![t] = "exit"]
    /\ UNCHANGED <<nthreads, nelems, lock, it_done, frame, returned>>
    /\ UNCHANGED notIter

\* The generator runs off its end: StopIteration propagates out of it.next().
GenStop(t) ==
    /\ pc[t] = "advancing"
    /\ frame[t] >= nelems
    /\ it_done' = TRUE
    /\ result' = [result EXCEPT ![t] = StopIteration]
    /\ pc' = [pc EXCEPT ![t] = "exit"]
    /\ UNCHANGED <<nthreads, nelems, lock, it_pos, frame, returned>>
    /\ UNCHANGED notIter

\* Leaving the with block: the lock is released, then the value is returned
\* to the caller or StopIteration reaches it (and the thread stops pulling).
ExitNext(t) ==
    /\ pc[t] = "exit"
    /\ lock' = LockAfterExit(result[t])
    /\ IF result[t] = StopIteration
          THEN /\ pc' = [pc EXCEPT ![t] = "done"]
               /\ UNCHANGED returned
          ELSE /\ pc' = [pc EXCEPT ![t] = "idle"]
               /\ returned' = [returned EXCEPT ![t][result[t]] = @ + 1]
    /\ result' = [result EXCEPT ![t] = NoResult]
    /\ UNCHANGED <<nthreads, nelems, it_pos, it_done, frame>>
    /\ UNCHANGED notIter

ThreadSafeIterNext ==
    \E t \in Threads :
        \/ CallNext(t)
        \/ AcquireLock(t)
        \/ GenResume(t)
        \/ GenYield(t)
        \/ GenStop(t)
        \/ ExitNext(t)

(***************************************************************************)
(* remove_silence (utils.py 117-132)                                       *)
(*                                                                         *)
(* A clip is a sequence of amplitudes, one per millisecond.  Loudness is   *)
(* pydub's: dBFS is a strictly increasing function of the clip's rms, the  *)
(* integer part of the root of the mean square, and is -infinity for an    *)
(* empty or all-zero clip.  Loudness and threshold are therefore compared  *)
(* on the amplitude scale, in half-amplitude units so that a threshold may *)
(* equal a reachable loudness (even values) or fall between two (odd).     *)
(***************************************************************************)
Amplitudes == 0..MaxAmp
Thresholds == 1..(2 * MaxAmp + 1)

RECURSIVE SumSquares(_)
SumSquares(seg) ==
    IF seg = <<>> THEN 0 ELSE Head(seg) * Head(seg) + SumSquares(Tail(seg))

\* Largest r with r * r <= n.
Isqrt(n) == CHOOSE r \in 0..n : r * r <= n /\ (r + 1) * (r + 1) > n

\* AudioSegment.rms: 0 for an empty clip.
rms(seg) == IF seg = <<>> THEN 0 ELSE Isqrt(SumSquares(seg) \div Len(seg))

\* AudioSegment.dBFS, on the half-amplitude scale.
dBFS(seg) == 2 * rms(seg)

\* sound[a:b] in milliseconds; the end is clamped to the clip's length.
Slice(s, a, b) == SubSeq(s, a + 1, IF b < Len(s) THEN b ELSE Len(s))

\* The positions a:b of the input, as they are appended to the output.
Positions(a, b) == [i \in 1..(b - a) |-> a + i]

\* The samples of the output clip.
ClipSamples == [i \in 1..Len(clip) |-> sound[clip[i]]]

\* while trim_ms + chunk_size < len(sound)
LoopCondition == trim_ms + chunk_size < Len(sound)

\* sound[trim_ms:trim_ms + chunk_size].dBFS < silence_threshold
ChunkIsSilentFlipped ==
    dBFS(Slice(sound, trim_ms, trim_ms + chunk_size)) > silence_threshold
ChunkIsSilent == dBFS(Slice(sound, trim_ms, trim_ms + chunk_size)) < silence_threshold

\* sound[cur_start:].dBFS > silence_threshold
TailIsKeptAtThreshold == dBFS(Slice(sound, cur_start, Len(sound))) >= silence_threshold
TailIsKept == dBFS(Slice(sound, cur_start, Len(sound))) > silence_threshold

\* if cur_end != cur_start: clip += sound[cur_start:cur_end]
FlushedWithChunk == clip \o Positions(cur_start, trim_ms + chunk_size)
Flushed == IF trim_ms # cur_start THEN clip \o Positions(cur_start, trim_ms) ELSE clip

\* trim_ms += chunk_size; cur_start = trim_ms
StaleSegmentStart == cur_start
NextSegmentStart == trim_ms + chunk_size

RECURSIVE SeqsUpTo(_, _)
SeqsUpTo(S, n) ==
    IF n = 0 THEN {<<>>}
    ELSE LET shorter == SeqsUpTo(S, n - 1)
         IN  shorter \cup {Append(q, x) : q \in {r \in shorter : Len(r) = n - 1}, x \in S}

\* Loop body, silent chunk: flush the pending segment, skip the chunk.
ScanSilentChunk ==
    /\ rs_pc = "scan"
    /\ LoopCondition
    /\ ChunkIsSilent
    /\ clip' = Flushed
    /\ trim_ms' = trim_ms + chunk_size
    /\ cur_start' = NextSegmentStart
    /\ UNCHANGED <<sound, silence_threshold, chunk_size, rs_pc, judged_loud,
                   applications, first_len>>
    /\ UNCHANGED notTrim

\* Loop body, chunk that is not silent: only the scan position moves.
ScanLoudChunk ==
    /\ rs_pc = "scan"
    /\ LoopCondition
    /\ ~ChunkIsSilent
    /\ trim_ms' = trim_ms + chunk_size
    /\ judged_loud' = judged_loud \cup {trim_ms}
    /\ UNCHANGED <<sound, silence_threshold, chunk_size, clip, cur_start, rs_pc,
                   applications, first_len>>
    /\ UNCHANGED notTrim

\* The loop condition fails.
ScanEnd ==
    /\ rs_pc = "scan"
    /\ ~LoopCondition
    /\ rs_pc' = "tail"
    /\ UNCHANGED <<sound, silence_threshold, chunk_size, clip, cur_start, trim_ms,
                   judged_loud, applications, first_len>>
    /\ UNCHANGED notTrim

\* The tail check and the return.
TailAndReturn ==
    /\ rs_pc = "tail"
    /\ clip' = IF TailIsKept THEN clip \o Positions(cur_start, Len(sound)) ELSE clip
    /\ rs_pc' = "returned"
    /\ applications' = applications + 1
    /\ UNCHANGED <<sound, silence_threshold, chunk_size, cur_start, trim_ms,
                   judged_loud, first_len>>
    /\ UNCHANGED notTrim

\* The caller trims the returned clip again, with the same threshold and chunk size.
TrimAgain ==
    /\ rs_pc = "returned"
    /\ applications <= first_len
    /\ sound' = ClipSamples
    /\ clip' = <<>>
    /\ cur_start' = 0
    /\ trim_ms' = 0
    /\ rs_pc' = "scan"
    /\ judged_loud' = {}
    /\ UNCHANGED <<silence_threshold, chunk_size, applications, first_len>>
    /\ UNCHANGED notTrim

remove_silenceNext ==
    \/ ScanSilentChunk
    \/ ScanLoudChunk
    \/ ScanEnd
    \/ TailAndReturn
    \/ TrimAgain

(***************************************************************************)
(* list_files (utils.py 89-103) and audio_predicate (utils.py 113-114)     *)
(*                                                                         *)
(* A path string is modelled as its split('/'): "gs://bkt/d/s.wav" is      *)
(* <<"gs:", "", "bkt", "d", "s.wav">>.  `store` holds the files of the     *)
(* local tree below LocalRoot, or the object keys of the bucket, each as   *)
(* the components below the storage root.                                  *)
(***************************************************************************)
DirNames == {"d", "e"}
FileNames == {"s.wav", "n.txt"}
LocalRoot == <<"data">>
BucketName == "bkt"
GsRoot == <<"gs:", "", BucketName>>

\* Folder chains of up to n names.
RECURSIVE DirChains(_)
DirChains(n) ==
    IF n = 0 THEN {<<>>}
    ELSE LET shorter == DirChains(n - 1)
         IN  shorter \cup {Append(q, x) : q \in {r \in shorter : Len(r) = n - 1}, x \in DirNames}

CandidateFiles == {Append(d, f) : d \in DirChains(MaxDepth - 1), f \in FileNames}
Stores == {S \in SUBSET CandidateFiles : Cardinality(S) <= MaxFiles}
BasePaths == {r \o d : r \in {LocalRoot, GsRoot}, d \in DirChains(MaxDepth - 1)}

IsPrefix(p, q) == Len(p) <= Len(q) /\ SubSeq(q, 1, Len(p)) = p

\* base_path.startswith("gs://")
IsGsPath(bp) == Len(bp) >= 3 /\ bp[1] = "gs:" /\ bp[2] = ""

\* bucket_name = base_path.split('/')[2]
bucket_name == base_path[3]

\* audio_predicate: the name ends in .wav, .mp3 or .aac
audio_predicate(path) == path[Len(path)] \in {"s.wav"}

\* The caller's predicate.
predicate(path) == name_filter = "always_true" \/ audio_predicate(path)

\* os.walk: the folder exists (it is the root or leads to a file).
FolderExists(folder) ==
    /\ IsPrefix(LocalRoot, folder)
    /\ \/ folder = LocalRoot
       \/ \E f \in store : IsPrefix(folder, LocalRoot \o f) /\ Len(LocalRoot \o f) > Len(folder)

\* os.walk's `files` of a folder, each joined to the folder.
FilesIn(folder) ==
    {LocalRoot \o f : f \in {g \in store : LocalRoot \o SubSeq(g, 1, Len(g) - 1) = folder}}

\* os.walk's `subs` of a folder, each joined to the folder.
SubsOf(folder) ==
    {SubSeq(LocalRoot \o f, 1, Len(folder) + 1) :
        f \in {g \in store : IsPrefix(folder, LocalRoot \o g)
                             /\ Len(LocalRoot \o g) > Len(folder) + 1}}

\* The orders in which a listing may come back.
Orders(S) == {q \in [1..Cardinality(S) -> S] : \A x \in S : \E i \in DOMAIN q : q[i] = x}

\* bucket.list_blobs(): every object of the bucket.
list_blobs == store

\* if base_path.startswith("gs://"): ... bucket.list_blobs()
StartBucketListing ==
    /\ lf_pc = "start"
    /\ IsGsPath(base_path)
    /\ candidates' = list_blobs
    /\ lf_pc' = "blobs"
    /\ UNCHANGED <<store, base_path, name_filter, walk_stack, yielded>>
    /\ UNCHANGED notList

\* One turn of the loop over the blobs: the predicate sees the object key,
\* the yielded path is prefix + bucket_name + '/' + f.name.
TestBlob ==
    /\ lf_pc = "blobs"
    /\ \E f \in candidates :
          /\ candidates' = candidates \ {f}
          /\ yielded' = IF predicate(f)
                           THEN Append(yielded, <<"gs:", "", bucket_name>> \o f)
                           ELSE yielded
    /\ UNCHANGED <<store, base_path, name_filter, lf_pc, walk_stack>>
    /\ UNCHANGED notList

\* else: os.walk(base_path) starts; a missing folder yields nothing.
StartWalk ==
    /\ lf_pc = "start"
    /\ ~IsGsPath(base_path)
    /\ walk_stack' = IF FolderExists(base_path) THEN <<base_path>> ELSE <<>>
    /\ lf_pc' = "walk"
    /\ UNCHANGED <<store, base_path, name_filter, candidates, yielded>>
    /\ UNCHANGED notList

\* os.walk hands out the next folder: its files are tested next, its
\* sub-folders are visited before the folders already waiting.
VisitFolder ==
    /\ lf_pc = "walk"
    /\ candidates = {}
    /\ walk_stack # <<>>
    /\ candidates' = FilesIn(Head(walk_stack))
    /\ \E order \in Orders(SubsOf(Head(walk_stack))) :
          walk_stack' = order \o Tail(walk_stack)
    /\ UNCHANGED <<store, base_path, name_filter, lf_pc, yielded>>
    /\ UNCHANGED notList

\* One turn of the loop over a folder's files.
TestFile ==
    /\ lf_pc = "walk"
    /\ \E f \in candidates :
          /\ candidates' = candidates \ {f}
          /\ yielded' = IF predicate(f) THEN Append(yielded, f) ELSE yielded
    /\ UNCHANGED <<store, base_path, name_filter, lf_pc, walk_stack>>
    /\ UNCHANGED notList

\* The generator is exhausted.
ListingDone ==
    /\ lf_pc \in {"walk", "blobs"}
    /\ candidates = {}
    /\ walk_stack = <<>>
    /\ lf_pc' = "done"
    /\ UNCHANGED <<store, base_path, name_filter, walk_stack, candidates, yielded>>
    /\ UNCHANGED notList

list_filesNext ==
    \/ StartBucketListing
    \/ TestBlob
    \/ StartWalk
    \/ VisitFolder
    \/ TestFile
    \/ ListingDone

(***************************************************************************)
(* SaverCallback.on_epoch_end (utils.py 202-210), called by the fit loop   *)
(* train() sets up (deep_voice_trainer.py 26-30) at the end of each epoch. *)
(***************************************************************************)
\* The fit loop finishes an epoch and calls the callbacks.
EpochEnds ==
    /\ sc_pc = "training"
    /\ epoch < epochs
    /\ sc_pc' = "primary"
    /\ attempted' = {}
    /\ UNCHANGED <<epochs, epoch, tf_saved, keras_saved, logged>>
    /\ UNCHANGED notSaver

\* self.saver.save(...) succeeds.
PrimarySaveOk ==
    /\ sc_pc = "primary"
    /\ attempted' = attempted \cup {"tf"}
    /\ tf_saved' = tf_saved \cup {epoch}
    /\ sc_pc' = "secondary"
    /\ UNCHANGED <<epochs, epoch, keras_saved, logged>>
    /\ UNCHANGED notSaver

\* self.saver.save(...) raises: nothing catches it, on_epoch_end and the
\* fit loop end with the exception.
PrimarySaveFails ==
    /\ sc_pc = "primary"
    /\ attempted' = attempted \cup {"tf"}
    /\ sc_pc' = "raised"
    /\ UNCHANGED <<epochs, epoch, tf_saved, keras_saved, logged>>
    /\ UNCHANGED notSaver

\* on_epoch_end returns: the fit loop goes on with the next epoch.
CallbackReturns ==
    /\ epoch' = epoch + 1
    /\ sc_pc' = IF epoch + 1 = epochs THEN "finished" ELSE "training"

\* self.model.save_weights(...) succeeds.
SecondarySaveOk ==
    /\ sc_pc = "secondary"
    /\ attempted' = attempted \cup {"keras"}
    /\ keras_saved' = keras_saved \cup {epoch}
    /\ CallbackReturns
    /\ UNCHANGED <<epochs, tf_saved, logged>>
    /\ UNCHANGED notSaver

\* self.model.save_weights(...) raises an Exception: logged and swallowed.
SecondarySaveFailsUncaught ==
    /\ sc_pc = "secondary"
    /\ attempted' = attempted \cup {"keras"}
    /\ sc_pc' = "raised"
    /\ UNCHANGED <<epochs, epoch, tf_saved, keras_saved, logged>>
    /\ UNCHANGED notSaver
SecondarySaveFails ==
    /\ sc_pc = "secondary"
    /\ attempted' = attempted \cup {"keras"}
    /\ logged' = logged \cup {epoch}
    /\ CallbackReturns
    /\ UNCHANGED <<epochs, tf_saved, keras_saved>>
    /\ UNCHANGED notSaver

on_epoch_endNext ==
    \/ EpochEnds
    \/ PrimarySaveOk
    \/ PrimarySaveFails
    \/ SecondarySaveOk
    \/ SecondarySaveFails

(***************************************************************************)
(* Specifications                                                          *)
(***************************************************************************)
InitIter ==
    /\ nthreads \in 1..MaxThreads
    /\ nelems \in 0..MaxElems
    /\ lock = FALSE
    /\ it_pos = 0
    /\ it_done = FALSE
    /\ pc = [t \in Threads |-> IF t <= nthreads THEN "idle" ELSE "absent"]
    /\ frame = [t \in Threads |-> 0]
    /\ result = [t \in Threads |-> NoResult]
    /\ returned = [t \in Threads |-> [v \in 1..MaxElems |-> 0]]
    /\ sound = <<>> /\ silence_threshold = 1 /\ chunk_size = 1 /\ clip = <<>>
    /\ cur_start = 0 /\ trim_ms = 0 /\ rs_pc = "off" /\ judged_loud = {}
    /\ applications = 0 /\ first_len = 0
    /\ store = {} /\ base_path = LocalRoot /\ name_filter = "always_true"
    /\ lf_pc = "off" /\ walk_stack = <<>> /\ candidates = {} /\ yielded = <<>>
    /\ epochs = 0 /\ epoch = 0 /\ sc_pc = "off" /\ tf_saved = {}
    /\ keras_saved = {} /\ logged = {} /\ attempted = {}

SpecIter == InitIter /\ [][ThreadSafeIterNext]_vars

InitTrim ==
    /\ sound \in SeqsUpTo(Amplitudes, MaxLen)
    /\ silence_threshold \in Thresholds
    /\ chunk_size \in 1..MaxChunk
    /\ clip = <<>>
    /\ cur_start = 0
    /\ trim_ms = 0
    /\ rs_pc = "scan"
    /\ judged_loud = {}
    /\ applications = 0
    /\ first_len = Len(sound)
    /\ nthreads = 0 /\ nelems = 0 /\ lock = FALSE /\ it_pos = 0 /\ it_done = FALSE
    /\ pc = [t \in Threads |-> "absent"]
    /\ frame = [t \in Threads |-> 0]
    /\ result = [t \in Threads |-> NoResult]
    /\ returned = [t \in Threads |-> [v \in 1..MaxElems |-> 0]]
    /\ store = {} /\ base_path = LocalRoot /\ name_filter = "always_true"
    /\ lf_pc = "off" /\ walk_stack = <<>> /\ candidates = {} /\ yielded = <<>>
    /\ epochs = 0 /\ epoch = 0 /\ sc_pc = "off" /\ tf_saved = {}
    /\ keras_saved = {} /\ logged = {} /\ attempted = {}

SpecTrim == InitTrim /\ [][remove_silenceNext]_vars

InitList ==
    /\ store \in Stores
    /\ base_path \in BasePaths
    /\ name_filter \in {"always_true", "audio_predicate"}
    /\ lf_pc = "start"
    /\ walk_stack = <<>>
    /\ candidates = {}
    /\ yielded = <<>>
    /\ nthreads = 0 /\ nelems = 0 /\ lock = FALSE /\ it_pos = 0 /\ it_done = FALSE
    /\ pc = [t \in Threads |-> "absent"]
    /\ frame = [t \in Threads |-> 0]
    /\ result = [t \in Threads |-> NoResult]
    /\ returned = [t \in Threads |-> [v \in 1..MaxElems |-> 0]]
    /\ sound = <<>> /\ silence_threshold = 1 /\ chunk_size = 1 /\ clip = <<>>
    /\ cur_start = 0 /\ trim_ms = 0 /\ rs_pc = "off" /\ judged_loud = {}
    /\ applications = 0 /\ first_len = 0
    /\ epochs = 0 /\ epoch = 0 /\ sc_pc = "off" /\ tf_saved = {}
    /\ keras_saved = {} /\ logged = {} /\ attempted = {}

SpecList == InitList /\ [][list_filesNext]_vars

InitSaver ==
    /\ epochs \in 1..MaxEpochs
    /\ epoch = 0
    /\ sc_pc = "training"
    /\ tf_saved = {}
    /\ keras_saved = {}
    /\ logged = {}
    /\ attempted = {}
    /\ nthreads = 0 /\ nelems = 0 /\ lock = FALSE /\ it_pos = 0 /\ it_done = FALSE
    /\ pc = [t \in Threads |-> "absent"]
    /\ frame = [t \in Threads |-> 0]
    /\ result = [t \in Threads |-> NoResult]
    /\ returned = [t \in Threads |-> [v \in 1..MaxElems |-> 0]]
    /\ sound = <<>> /\ silence_threshold = 1 /\ chunk_size = 1 /\ clip = <<>>
    /\ cur_start = 0 /\ trim_ms = 0 /\ rs_pc = "off" /\ judged_loud = {}
    /\ applications = 0 /\ first_len = 0
    /\ store = {} /\ base_path = LocalRoot /\ name_filter = "always_true"
    /\ lf_pc = "off" /\ walk_stack = <<>> /\ candidates = {} /\ yielded = <<>>

SpecSaver == InitSaver /\ [][on_epoch_endNext]_vars

(***************************************************************************)
(* Properties                                                              *)
(***************************************************************************)

\* Number of times value v was returned, over all threads.
RECURSIVE SumReturned(_, _)
SumReturned(v, t) == IF t = 0 THEN 0 ELSE returned[t][v] + SumReturned(v, t - 1)
TimesReturned(v) == SumReturned(v, MaxThreads)

AllThreadsDone == \A t \in Active : pc[t] = "done"
InGenerator(t) == pc[t] = "advancing"
HoldsLock(t) == pc[t] \in {"locked", "advancing", "exit"}

\* C1: under every interleaving no element is returned twice, the elements
\* returned so far are exactly the first it_pos ones less those still being
\* handed out, and once every thread has seen end-of-sequence each of the K
\* elements has been returned exactly once.
C1_ExactlyOnce ==
    /\ \A v \in 1..MaxElems : TimesReturned(v) <= 1
    /\ \A v \in 1..MaxElems : TimesReturned(v) = 1 => v <= it_pos
    /\ \A v \in 1..MaxElems :
          (v <= it_pos /\ TimesReturned(v) = 0) => \E t \in Active : result[t] = v
    /\ AllThreadsDone =>
          \A v \in 1..MaxElems : TimesReturned(v) = (IF v <= nelems THEN 1 ELSE 0)

C1_Witness ==
    /\ AllThreadsDone
    /\ nthreads >= 2
    /\ nelems >= 2
    /\ \E t1, t2 \in Active : t1 # t2 /\ returned[t1][1] = 1 /\ returned[t2][2] = 1

\* C2: at most one thread at a time is inside the wrapped generator.
C2_MutualExclusion ==
    /\ Cardinality({t \in Active : InGenerator(t)}) <= 1
    /\ Cardinality({t \in Active : HoldsLock(t)}) <= 1

\* A second caller waits on the lock while another one advances the generator.
C2_Witness ==
    \E t1, t2 \in Active : t1 # t2 /\ InGenerator(t1) /\ pc[t2] = "waiting"

\* C3: the lock is held only by a caller still inside next(), it is free
\* right after every call ends (with a value or with end-of-sequence), and
\* once the generator is exhausted every call ends with end-of-sequence.
C3_StateOk ==
    /\ lock <=> \E t \in Active : HoldsLock(t)
    /\ \A t \in Active : (it_done /\ pc[t] = "exit") => result[t] = StopIteration
C3_CallEndFreesLock ==
    \A t \in Threads : (pc[t] = "exit" /\ pc'[t] \in {"idle", "done"}) => ~lock'
C3_LockReleased == []C3_StateOk /\ [][C3_CallEndFreesLock]_vars

\* A call ended with end-of-sequence, and a later caller then took the lock.
C3_Witness ==
    \E t1, t2 \in Active : t1 # t2 /\ pc[t1] = "done" /\ pc[t2] = "exit"
                            /\ result[t2] = StopIteration

(***************************************************************************)
(* remove_silence                                                          *)
(***************************************************************************)
Returned == rs_pc = "returned"

\* Every non-empty stretch a:b of the input measures below the threshold.
FullySilent ==
    \A a \in 0..Len(sound) : \A b \in (a + 1)..Len(sound) :
        dBFS(Slice(sound, a, b)) < silence_threshold

\* One loudness throughout, and it is above the threshold.
UniformLoud ==
    /\ sound # <<>>
    /\ \A i, j \in 1..Len(sound) : sound[i] = sound[j]
    /\ dBFS(sound) > silence_threshold

\* The trailing segment sound[cur_start:] and whether the output ends with it.
TailSegment == Slice(sound, cur_start, Len(sound))
TailPositions == Positions(cur_start, Len(sound))
EndsWithTail ==
    /\ Len(clip) >= Len(TailPositions)
    /\ SubSeq(clip, Len(clip) - Len(TailPositions) + 1, Len(clip)) = TailPositions
LastSampleKept == \E i \in 1..Len(clip) : clip[i] = Len(sound)

\* C4: a clip below the threshold over its full duration comes back empty,
\* whatever its length relative to chunk_size.
C4_SilentGivesEmpty == (Returned /\ FullySilent) => clip = <<>>

C4_Witness ==
    /\ Returned /\ FullySilent /\ applications = 1
    /\ Len(sound) > chunk_size
    /\ Len(sound) % chunk_size # 0
    /\ clip = <<>>

\* C5: a clip of uniform loudness above the threshold comes back unchanged.
C5_LoudGivesOriginal ==
    (Returned /\ UniformLoud) =>
        /\ clip = Positions(0, Len(sound))
        /\ ClipSamples = sound

C5_Witness ==
    /\ Returned /\ UniformLoud /\ applications = 1
    /\ Len(sound) > 2 * chunk_size
    /\ ClipSamples = sound

\* C6: trimming never lengthens a clip, and trimming the result again and
\* again reaches a clip that comes back unchanged within len + 1 calls.
C6_Converges ==
    Returned =>
        /\ Len(clip) <= Len(sound)
        /\ applications = first_len + 1 => ClipSamples = sound

\* A second call that still shortens the already trimmed clip.
C6_Witness ==
    /\ Returned /\ applications = 2
    /\ Len(clip) < Len(sound)

\* C9 as stated: the unscanned rest is shorter than one chunk, and the
\* trailing segment is appended exactly when it is not below the threshold.
C9_TailAsStated ==
    /\ rs_pc = "tail" => Len(sound) - trim_ms < chunk_size
    /\ Returned => (LastSampleKept <=> ~(dBFS(TailSegment) < silence_threshold))

\* C9 amended: the unscanned rest is at most one chunk (and not empty unless
\* the clip is), and the trailing segment is appended, whole, exactly when
\* its loudness is strictly above the threshold.
C9_TailAmended ==
    /\ rs_pc = "tail" =>
          /\ Len(sound) - trim_ms <= chunk_size
          /\ sound # <<>> => Len(sound) - trim_ms >= 1
          /\ cur_start <= trim_ms
    /\ Returned =>
          IF dBFS(TailSegment) > silence_threshold
             THEN EndsWithTail /\ LastSampleKept
             ELSE ~LastSampleKept

\* The unscanned rest is a whole chunk and the trailing segment, exactly as
\* loud as the threshold, is left out.
C9_Witness ==
    /\ Returned /\ applications = 1
    /\ Len(sound) - trim_ms = chunk_size
    /\ TailSegment # <<>>
    /\ dBFS(TailSegment) = silence_threshold
    /\ ~LastSampleKept

\* C10: the output is the input's samples in their order, none twice, and it
\* holds every chunk the scan measured as not silent.
C10_LoudChunksRetained ==
    Returned =>
        /\ \A i \in 1..Len(clip) : clip[i] \in 1..Len(sound)
        /\ \A i, j \in 1..Len(clip) : i < j => clip[i] < clip[j]
        /\ \A c \in judged_loud : \A k \in 1..chunk_size :
              \E i \in 1..Len(clip) : clip[i] = c + k

(***************************************************************************)
(* list_files                                                              *)
(***************************************************************************)
StorageRoot == IF IsGsPath(base_path) THEN GsRoot ELSE LocalRoot

\* The files of the storage that lie under base_path.
FilesUnderRoot ==
    {StorageRoot \o f : f \in {g \in store : IsPrefix(base_path, StorageRoot \o g)}}

YieldedSet == {yielded[i] : i \in 1..Len(yielded)}

\* C7: with the always-true predicate the enumeration yields exactly the
\* files under the root, each once, on the local and on the gs:// backend.
C7_AllFilesUnderRoot ==
    (lf_pc = "done" /\ name_filter = "always_true") =>
        /\ YieldedSet = FilesUnderRoot
        /\ \A i, j \in 1..Len(yielded) : i # j => yielded[i] # yielded[j]

(***************************************************************************)
(* SaverCallback.on_epoch_end                                              *)
(***************************************************************************)
CallEnded == sc_pc \in {"training", "finished", "raised"} /\ attempted # {}

\* C8 as stated: neither save path failing keeps the other from running, and
\* a failed secondary save is logged with the primary save done.
C8_AsStated ==
    /\ CallEnded => attempted = {"tf", "keras"}
    /\ \A e \in logged : e \in tf_saved

\* C8 amended: a secondary save that raises an Exception is logged and the
\* call returns normally with the primary save of that epoch done; a primary
\* save that raises ends the call before the secondary save is tried.
C8_Amended ==
    /\ \A e \in logged : e \in tf_saved /\ e \notin keras_saved /\ e < epoch
    /\ (sc_pc \in {"training", "finished"} /\ epoch > 0) =>
          /\ attempted = {"tf", "keras"}
          /\ (epoch - 1) \in tf_saved
          /\ (epoch - 1) \in keras_saved \cup logged
    /\ sc_pc = "raised" =>
          /\ attempted = {"tf"}
          /\ epoch \notin tf_saved \cup keras_saved \cup logged

\* The secondary save failed in an epoch and the fit loop went on to finish.
C8_Witness ==
    /\ sc_pc = "finished"
    /\ epochs >= 2
    /\ 0 \in logged /\ 0 \in tf_saved
    /\ 1 \in keras_saved

====
